---------------------------- MODULE Spec2Model ----------------------------
(***************************************************************************)
(* A model of src/app.py, the Streamlit script that turns brandboard and   *)
(* copy screenshots into a prompt for Lovable.                             *)
(*                                                                         *)
(* Text is modelled as a sequence of characters (one-character strings),   *)
(* so that strip, startswith, split, slicing and the JSON decoder are      *)
(* computed as Python computes them.  A decoded JSON value is a tagged     *)
(* record: [t |-> "str", v |-> chars], [t |-> "list", v |-> <<values>>],   *)
(* [t |-> "dict", v |-> <<[k |-> chars, v |-> value], ...>>] (insertion    *)
(* order, keys unique), [t |-> "null"], [t |-> "bool", v |-> BOOLEAN].     *)
(***************************************************************************)
EXTENDS Naturals, Sequences, FiniteSets

(***************************************************************************)
(* Bounds of the model.                                                    *)
(***************************************************************************)
\* longest exhaustively enumerated text (model responses, filenames)
MaxLen == 2
\* most images uploaded in one group
MaxImages == 1
\* most executions of the script (reruns) in one session
MaxRuns == 2

(***************************************************************************)
(* Characters and the words of the source, spelled as character sequences. *)
(***************************************************************************)
\* the whitespace str.strip() removes and the JSON decoder skips
WS == {" ", "\n"}

\* the backtick character (U+0060), which a TLA+ string literal cannot hold
BACKTICK == "BACKTICK"

\* the marker that opens and closes a fenced code block: three backticks
FENCE == <<BACKTICK, BACKTICK, BACKTICK>>

\* the label the code strips after the fence: "json"
JSON_LABEL == <<"j", "s", "o", "n">>

K_color_primario == <<"c", "o", "l", "o", "r", "_", "p", "r", "i", "m", "a", "r", "i", "o">>
K_color_secundario == <<"c", "o", "l", "o", "r", "_", "s", "e", "c", "u", "n", "d", "a", "r", "i", "o">>
K_color_texto == <<"c", "o", "l", "o", "r", "_", "t", "e", "x", "t", "o">>
K_color_fondo == <<"c", "o", "l", "o", "r", "_", "f", "o", "n", "d", "o">>
K_tipografia == <<"t", "i", "p", "o", "g", "r", "a", "f", "i", "a">>
K_estilo == <<"e", "s", "t", "i", "l", "o">>
K_notas_adicionales == <<"n", "o", "t", "a", "s", "_", "a", "d", "i", "c", "i", "o", "n", "a", "l", "e", "s">>
K_estilo_botones == <<"e", "s", "t", "i", "l", "o", "_", "b", "o", "t", "o", "n", "e", "s">>

\* the sentinel the prompt asks for and the fallback record uses
NO_IDENTIFICADO == <<"N", "O", " ", "I", "D", "E", "N", "T", "I", "F", "I", "C", "A", "D", "O">>

\* the defaults of generate_lovable_prompt
D_000000 == <<"#", "0", "0", "0", "0", "0", "0">>
D_666666 == <<"#", "6", "6", "6", "6", "6", "6">>
D_gris_oscuro == <<"g", "r", "i", "s", " ", "o", "s", "c", "u", "r", "o">>
D_blanco == <<"b", "l", "a", "n", "c", "o">>
D_Inter == <<"I", "n", "t", "e", "r">>
D_moderno == <<"m", "o", "d", "e", "r", "n", "o", ",", " ", "l", "i", "m", "p", "i", "o", ",", " ", "p", "r", "o", "f", "e", "s", "i", "o", "n", "a", "l">>

(***************************************************************************)
(* The str operations of Python on character sequences.                    *)
(***************************************************************************)
\* s[i:] with a 1-based i
From(s, i) == SubSeq(s, i, Len(s))

\* s.startswith(p)
StartsWith(s, p) == Len(s) >= Len(p) /\ SubSeq(s, 1, Len(p)) = p

\* whether p occurs in s at position i
OccursAt(s, p, i) == i + Len(p) - 1 <= Len(s) /\ SubSeq(s, i, i + Len(p) - 1) = p

\* s.find(p): the first position of p in s, 0 when there is none
Find(s, p) ==
    LET hits == {i \in 1..Len(s) : OccursAt(s, p, i)}
    IN  IF hits = {} THEN 0 ELSE CHOOSE i \in hits : \A j \in hits : i <= j

\* p in s
Contains(s, p) == \E i \in 1..(Len(s) + 1) : OccursAt(s, p, i)

RECURSIVE LStrip(_)
LStrip(s) == IF s # <<>> /\ Head(s) \in WS THEN LStrip(Tail(s)) ELSE s

RECURSIVE RStrip(_)
RStrip(s) ==
    IF s # <<>> /\ s[Len(s)] \in WS THEN RStrip(SubSeq(s, 1, Len(s) - 1)) ELSE s

\* s.strip()
Strip(s) == RStrip(LStrip(s))

\* s.split(sep): the pieces between the non-overlapping occurrences of sep,
\* found left to right
RECURSIVE Split(_, _)
Split(s, sep) ==
    LET k == Find(s, sep)
    IN  IF k = 0 THEN <<s>>
        ELSE <<SubSeq(s, 1, k - 1)>> \o Split(From(s, k + Len(sep)), sep)

\* c.lower() for one character
LowerChar(c) ==
    CASE c = "A" -> "a" [] c = "B" -> "b" [] c = "C" -> "c" [] c = "D" -> "d"
      [] c = "E" -> "e" [] c = "F" -> "f" [] c = "G" -> "g" [] c = "H" -> "h"
      [] c = "I" -> "i" [] c = "J" -> "j" [] c = "K" -> "k" [] c = "L" -> "l"
      [] c = "M" -> "m" [] c = "N" -> "n" [] c = "O" -> "o" [] c = "P" -> "p"
      [] c = "Q" -> "q" [] c = "R" -> "r" [] c = "S" -> "s" [] c = "T" -> "t"
      [] c = "U" -> "u" [] c = "V" -> "v" [] c = "W" -> "w" [] c = "X" -> "x"
      [] c = "Y" -> "y" [] c = "Z" -> "z"
      [] OTHER -> c

Lower(s) == [i \in 1..Len(s) |-> LowerChar(s[i])]

(***************************************************************************)
(* json.loads, as the decoder of the standard library scans a document     *)
(* over the characters of the model: strings (no escapes; a raw control         *)
(* character such as a newline inside a string is an error), objects,      *)
(* arrays, null, true and false.  The texts of the model hold no digits, so     *)
(* number literals do not arise.                                           *)
(***************************************************************************)
Fail == [ok |-> FALSE]

Ok(val, end) == [ok |-> TRUE, val |-> val, end |-> end]

StrVal(s) == [t |-> "str", v |-> s]

ListVal(items) == [t |-> "list", v |-> items]

DictVal(pairs) == [t |-> "dict", v |-> pairs]

NullVal == [t |-> "null"]

BoolVal(b) == [t |-> "bool", v |-> b]

RECURSIVE SkipWs(_, _)
SkipWs(s, i) == IF i <= Len(s) /\ s[i] \in WS THEN SkipWs(s, i + 1) ELSE i

\* dict(pairs): a repeated key keeps its first position and takes the last value
RECURSIVE DictFromPairs(_, _)
DictFromPairs(pairs, acc) ==
    IF pairs = <<>> THEN acc
    ELSE LET p == Head(pairs)
             at == {i \in 1..Len(acc) : acc[i].k = p.k}
         IN  DictFromPairs(Tail(pairs),
                 IF at = {} THEN Append(acc, p)
                 ELSE [i \in 1..Len(acc) |-> IF i \in at THEN p ELSE acc[i]])

\* the string whose opening quote precedes position i
scanstring(s, i) ==
    LET rest == From(s, i)
        q == Find(rest, <<"\"">>)
    IN  IF q = 0 THEN Fail
        ELSE IF \E k \in 1..(q - 1) : rest[k] = "\n" THEN Fail
        ELSE Ok(SubSeq(rest, 1, q - 1), i + q)

RECURSIVE scan_once(_, _)
RECURSIVE JSONObjectLoop(_, _, _)
RECURSIVE JSONArrayLoop(_, _, _)

\* after the opening quote of a key at i - 1: key, colon, value, then "," or "}"
JSONObjectLoop(s, i, pairs) ==
    LET key == scanstring(s, i)
    IN  IF ~key.ok THEN Fail
        ELSE LET c == SkipWs(s, key.end)
             IN  IF c > Len(s) \/ s[c] # ":" THEN Fail
                 ELSE LET val == scan_once(s, SkipWs(s, c + 1))
                      IN  IF ~val.ok THEN Fail
                          ELSE LET e == SkipWs(s, val.end)
                                   all == Append(pairs, [k |-> key.val, v |-> val.val])
                               IN  IF e > Len(s) THEN Fail
                                   ELSE IF s[e] = "}"
                                   THEN Ok(DictVal(DictFromPairs(all, <<>>)), e + 1)
                                   ELSE IF s[e] # "," THEN Fail
                                   ELSE LET n == SkipWs(s, e + 1)
                                        IN  IF n > Len(s) \/ s[n] # "\"" THEN Fail
                                            ELSE JSONObjectLoop(s, n + 1, all)

\* after "{" at i - 1
JSONObject(s, i) ==
    LET j == SkipWs(s, i)
    IN  IF j > Len(s) THEN Fail
        ELSE IF s[j] = "}" THEN Ok(DictVal(<<>>), j + 1)
        ELSE IF s[j] # "\"" THEN Fail
        ELSE JSONObjectLoop(s, j + 1, <<>>)

\* a value at i, then "," or "]"
JSONArrayLoop(s, i, items) ==
    LET val == scan_once(s, i)
    IN  IF ~val.ok THEN Fail
        ELSE LET e == SkipWs(s, val.end)
                 all == Append(items, val.val)
             IN  IF e > Len(s) THEN Fail
                 ELSE IF s[e] = "]" THEN Ok(ListVal(all), e + 1)
                 ELSE IF s[e] # "," THEN Fail
                 ELSE JSONArrayLoop(s, SkipWs(s, e + 1), all)

\* after "[" at i - 1
JSONArray(s, i) ==
    LET j == SkipWs(s, i)
    IN  IF j > Len(s) THEN Fail
        ELSE IF s[j] = "]" THEN Ok(ListVal(<<>>), j + 1)
        ELSE JSONArrayLoop(s, j, <<>>)

\* the value that starts at position i
scan_once(s, i) ==
    IF i > Len(s) THEN Fail
    ELSE IF s[i] = "\""
    THEN LET str == scanstring(s, i + 1)
         IN  IF str.ok THEN Ok(StrVal(str.val), str.end) ELSE Fail
    ELSE IF s[i] = "{" THEN JSONObject(s, i + 1)
    ELSE IF s[i] = "[" THEN JSONArray(s, i + 1)
    ELSE IF OccursAt(s, <<"n", "u", "l", "l">>, i) THEN Ok(NullVal, i + 4)
    ELSE IF OccursAt(s, <<"t", "r", "u", "e">>, i) THEN Ok(BoolVal(TRUE), i + 4)
    ELSE IF OccursAt(s, <<"f", "a", "l", "s", "e">>, i) THEN Ok(BoolVal(FALSE), i + 5)
    ELSE Fail

\* json.loads(s): [ok |-> TRUE, val |-> value], or [ok |-> FALSE] for
\* json.JSONDecodeError
json_loads(s) ==
    LET r == scan_once(s, SkipWs(s, 1))
    IN  IF ~r.ok THEN Fail
        ELSE IF SkipWs(s, r.end) # Len(s) + 1 THEN Fail
        ELSE [ok |-> TRUE, val |-> r.val]

(***************************************************************************)
(* extract_brand_info, from the content of the model response on: strip,   *)
(* remove a code fence, decode, fall back on a decode error.               *)
(***************************************************************************)
\* the record returned on json.JSONDecodeError
FallbackBrandInfo(response_text) ==
    DictVal(<< [k |-> K_color_primario, v |-> StrVal(NO_IDENTIFICADO)],
               [k |-> K_color_secundario, v |-> StrVal(NO_IDENTIFICADO)],
               [k |-> K_tipografia, v |-> StrVal(NO_IDENTIFICADO)],
               [k |-> K_estilo_botones, v |-> StrVal(NO_IDENTIFICADO)],
               [k |-> K_notas_adicionales, v |-> StrVal(response_text)] >>)

\* response_text after the cleaning of lines 144-150
CleanResponse(content) ==
    LET stripped == Strip(content)
        unfenced ==
            IF StartsWith(stripped, FENCE)
            THEN LET piece == Split(stripped, FENCE)[2]
                 IN  IF StartsWith(piece, JSON_LABEL) THEN From(piece, 5) ELSE piece
            ELSE stripped
    IN  Strip(unfenced)

\* the value extract_brand_info returns when the API answers with content
extract_brand_info(content) ==
    LET response_text == CleanResponse(content)
        decoded == json_loads(response_text)
    IN  IF decoded.ok THEN decoded.val ELSE FallbackBrandInfo(response_text)

(***************************************************************************)
(* get_image_media_type                                                    *)
(***************************************************************************)
get_image_media_type(filename) ==
    LET parts == Split(Lower(filename), <<".">>)
        ext == parts[Len(parts)]
    IN  CASE ext = <<"p", "n", "g">> -> "image/png"
          [] ext = <<"j", "p", "g">> -> "image/jpeg"
          [] ext = <<"j", "p", "e", "g">> -> "image/jpeg"
          [] ext = <<"g", "i", "f">> -> "image/gif"
          [] ext = <<"w", "e", "b", "p">> -> "image/webp"
          [] OTHER -> "image/png"

(***************************************************************************)
(* str(value) and repr(value) of a decoded JSON value, which str.format    *)
(* applies to an argument that is not a str.                               *)
(***************************************************************************)
\* the body of the repr of a str: a newline is written as backslash, n
RECURSIVE ReprChars(_)
ReprChars(s) ==
    IF s = <<>> THEN <<>>
    ELSE (IF Head(s) = "\n" THEN <<"\\", "n">> ELSE <<Head(s)>>) \o ReprChars(Tail(s))

RECURSIVE PyRepr(_)
RECURSIVE ReprItems(_)
RECURSIVE ReprPairs(_)

ReprItems(items) ==
    IF items = <<>> THEN <<>>
    ELSE PyRepr(Head(items))
         \o (IF Len(items) > 1 THEN <<",", " ">> ELSE <<>>)
         \o ReprItems(Tail(items))

ReprPairs(pairs) ==
    IF pairs = <<>> THEN <<>>
    ELSE PyRepr(StrVal(Head(pairs).k)) \o <<":", " ">> \o PyRepr(Head(pairs).v)
         \o (IF Len(pairs) > 1 THEN <<",", " ">> ELSE <<>>)
         \o ReprPairs(Tail(pairs))

PyRepr(v) ==
    CASE v.t = "str" -> <<"'">> \o ReprChars(v.v) \o <<"'">>
      [] v.t = "null" -> <<"N", "o", "n", "e">>
      [] v.t = "bool" -> IF v.v THEN <<"T", "r", "u", "e">>
                         ELSE <<"F", "a", "l", "s", "e">>
      [] v.t = "list" -> <<"[">> \o ReprItems(v.v) \o <<"]">>
      [] v.t = "dict" -> <<"{">> \o ReprPairs(v.v) \o <<"}">>

\* format(value, ""): a str is itself, any other value is its str()
PyStr(v) == IF v.t = "str" THEN v.v ELSE PyRepr(v)

(***************************************************************************)
(* PLANTILLA_LOVABLE and str.format.  The template is held as its pieces:  *)
(* each brace, each field name and each run of literal text (cut after the *)
(* line breaks) is one element.  The formatted text is the sequence of the *)
(* literal pieces and of the characters of the substituted values.         *)
(***************************************************************************)
PLANTILLA_LOVABLE ==
    << "Crea una landing page de registro para webinar usando las imágenes adjuntas como referencia:\n",
       "- Imagen del brandboard → para colores, tipografía y estilo visual\n",
       "- Imágenes de estructura (opcional) → para ver layouts de secciones\n\n",
       "DATOS TÉCNICOS:\n",
       "- Color primario: ",
       "{",
       "color_primario",
       "}",
       "\n",
       "- Color secundario: ",
       "{",
       "color_secundario",
       "}",
       "\n",
       "- Color de texto: ",
       "{",
       "color_texto",
       "}",
       "\n",
       "- Color de fondo: ",
       "{",
       "color_fondo",
       "}",
       "\n",
       "- Tipografía: ",
       "{",
       "tipografia",
       "}",
       "\n",
       "- Estilo: ",
       "{",
       "estilo",
       "}",
       "\n",
       "- Botones: fondo ",
       "{",
       "color_secundario",
       "}",
       ", texto blanco, bordes redondeados\n\n",
       "IMPORTANTE: NO modifiques el texto que te proporciono. Cópialo exactamente palabra por palabra, sin cambiar ni una coma.\n\n",
       "SECCIONES:\n\n",
       "{",
       "secciones",
       "}",
       "\n\n",
       "NOTAS TÉCNICAS:\n",
       "- Mobile-first, responsive\n",
       "- Donde indique FOTO, IMAGEN o MOCKUP, dejar placeholder gris\n",
       "- Formulario con validación básica\n",
       "- Contadores regresivos funcionales si aplica\n",
       "- Scroll suave entre secciones\n\n",
       "RECORDATORIO: No modifiques el texto. Cada palabra, cada coma, cada punto debe ser exacto." >>

\* the result of str.format: [raised |-> FALSE, val |-> text], or
\* [raised |-> TRUE] for the KeyError or ValueError of a bad field
Raised == [raised |-> TRUE]

Returned(val) == [raised |-> FALSE, val |-> val]

RECURSIVE FormatFrom(_, _, _)
FormatFrom(tpl, i, kw) ==
    LET braces == {j \in i..Len(tpl) : tpl[j] \in {"{", "}"}}
    IN  IF braces = {} THEN Returned(SubSeq(tpl, i, Len(tpl)))
        ELSE LET j == CHOOSE j \in braces : \A k \in braces : j <= k
                 literal == SubSeq(tpl, i, j - 1)
                 doubled == j < Len(tpl) /\ tpl[j + 1] = tpl[j]
                 field == /\ tpl[j] = "{"
                          /\ j + 2 <= Len(tpl)
                          /\ tpl[j + 2] = "}"
                          /\ tpl[j + 1] \in DOMAIN kw
                 rest == FormatFrom(tpl, IF doubled THEN j + 2 ELSE j + 3, kw)
             IN  IF ~doubled /\ ~field THEN Raised
                 ELSE IF rest.raised THEN Raised
                 ELSE Returned(literal
                               \o (IF doubled THEN <<tpl[j]>> ELSE PyStr(kw[tpl[j + 1]]))
                               \o rest.val)

\* tpl.format(**kw)
Format(tpl, kw) == FormatFrom(tpl, 1, kw)

\* d.get(key, default) on a decoded JSON object
DictGet(d, key, default) ==
    LET at == {i \in 1..Len(d.v) : d.v[i].k = key}
    IN  IF at = {} THEN default ELSE d.v[CHOOSE i \in at : TRUE].v

\* tpl with the one field name replaced by the characters of text
Splice(tpl, name, text) ==
    LET at == {i \in 1..Len(tpl) - 2 :
                  tpl[i] = "{" /\ tpl[i + 1] = name /\ tpl[i + 2] = "}"}
    IN  IF at = {} THEN tpl
        ELSE LET i == CHOOSE i \in at : TRUE
             IN  SubSeq(tpl, 1, i - 1) \o text \o SubSeq(tpl, i + 3, Len(tpl))

\* generate_lovable_prompt with the sentinel as the default of a missing
\* text color
generate_lovable_prompt_SentinelDefault(brand_info, structured_sections) ==
    IF brand_info.t # "dict" THEN Raised
    ELSE Format(PLANTILLA_LOVABLE,
             [color_primario |-> DictGet(brand_info, K_color_primario, StrVal(D_000000)),
              color_secundario |-> DictGet(brand_info, K_color_secundario, StrVal(D_666666)),
              color_texto |-> DictGet(brand_info, K_color_texto, StrVal(NO_IDENTIFICADO)),
              color_fondo |-> DictGet(brand_info, K_color_fondo, StrVal(D_blanco)),
              tipografia |-> DictGet(brand_info, K_tipografia, StrVal(D_Inter)),
              estilo |-> DictGet(brand_info, K_estilo, StrVal(D_moderno)),
              secciones |-> StrVal(structured_sections)])

\* generate_lovable_prompt with the sections put into the template before
\* it is formatted, so that str.format scans the sections text too
generate_lovable_prompt_SectionsFirst(brand_info, structured_sections) ==
    IF brand_info.t # "dict" THEN Raised
    ELSE Format(Splice(PLANTILLA_LOVABLE, "secciones", structured_sections),
             [color_primario |-> DictGet(brand_info, K_color_primario, StrVal(D_000000)),
              color_secundario |-> DictGet(brand_info, K_color_secundario, StrVal(D_666666)),
              color_texto |-> DictGet(brand_info, K_color_texto, StrVal(D_gris_oscuro)),
              color_fondo |-> DictGet(brand_info, K_color_fondo, StrVal(D_blanco)),
              tipografia |-> DictGet(brand_info, K_tipografia, StrVal(D_Inter)),
              estilo |-> DictGet(brand_info, K_estilo, StrVal(D_moderno))])

(***************************************************************************)
(* generate_lovable_prompt: [raised |-> TRUE] when brand_info has no get   *)
(* method (AttributeError: a decoded list, str, bool or null).             *)
(***************************************************************************)
generate_lovable_prompt(brand_info, structured_sections) ==
    IF brand_info.t # "dict" THEN Raised
    ELSE Format(PLANTILLA_LOVABLE,
             [color_primario |-> DictGet(brand_info, K_color_primario, StrVal(D_000000)),
              color_secundario |-> DictGet(brand_info, K_color_secundario, StrVal(D_666666)),
              color_texto |-> DictGet(brand_info, K_color_texto, StrVal(D_gris_oscuro)),
              color_fondo |-> DictGet(brand_info, K_color_fondo, StrVal(D_blanco)),
              tipografia |-> DictGet(brand_info, K_tipografia, StrVal(D_Inter)),
              estilo |-> DictGet(brand_info, K_estilo, StrVal(D_moderno)),
              secciones |-> StrVal(structured_sections)])

(***************************************************************************)
(* The state of a session: the process-wide names of the script, the       *)
(* widgets, what one execution of the script has done so far, and the      *)
(* argument and result of a function called on its own.                    *)
(***************************************************************************)
VARIABLES
    secrets,            \* st.secrets["OPENROUTER_API_KEY"], or ABSENT
    environ,            \* os.environ["OPENROUTER_API_KEY"], or ABSENT
    _client,            \* the module global _client: None or a client handle
    nConstructed,       \* how many times OpenAI(...) was called in the session
    run,                \* how many times the script was executed
    pc,                 \* where the current execution of the script is
    button,             \* the value st.button returned in this execution
    brandboard_files,   \* the uploaded brandboard images (their names)
    copy_files,         \* the uploaded copy images (their names)
    steps,              \* the pipeline steps begun in this execution, in order
    requests,           \* the chat-completion requests sent in this execution
    ui,                 \* the elements rendered in this execution, in order
    content,            \* the content of the last model response
    brand_info,         \* the script variable brand_info
    raw_copy,           \* the script variable raw_copy
    structured_sections, \* the script variable structured_sections
    final_prompt,       \* the script variable final_prompt
    filename,           \* the argument of get_image_media_type called alone
    media_type          \* its result

vars == <<secrets, environ, _client, nConstructed, run, pc, button,
          brandboard_files, copy_files, steps, requests, ui, content,
          brand_info, raw_copy, structured_sections, final_prompt,
          filename, media_type>>

\* a key that is not in the mapping (os.getenv then returns None)
ABSENT == "ABSENT"

\* a key that is set to the empty string
EMPTY == ""

KeySources == {ABSENT, EMPTY, "sk-or-v1"}

\* the value None of _client; a handle is the serial number of its construction
None == 0

\* a script variable that is not bound yet
Unset == [t |-> "unset"]

\* every text of at most n characters over chars
ShortTexts(chars, n) == UNION {[1..k -> chars] : k \in 0..n}

(***************************************************************************)
(* get_api_key and get_client                                              *)
(***************************************************************************)
get_api_key(sec, env) == IF sec # ABSENT THEN sec ELSE env

\* get_client without the check of the key: a client is constructed from
\* whatever get_api_key returned
get_client_Unchecked(client, sec, env, n) ==
    IF client = None
    THEN [stopped |-> FALSE, client |-> n + 1, constructed |-> n + 1]
    ELSE [stopped |-> FALSE, client |-> client, constructed |-> n]

\* get_client() with _client = client and n clients constructed so far:
\* stopped is the st.error and st.stop() of a missing key
get_client(client, sec, env, n) ==
    IF client = None
    THEN LET api_key == get_api_key(sec, env)
         IN  IF api_key \in {ABSENT, EMPTY}
             THEN [stopped |-> TRUE, client |-> client, constructed |-> n]
             ELSE [stopped |-> FALSE, client |-> n + 1, constructed |-> n + 1]
    ELSE [stopped |-> FALSE, client |-> client, constructed |-> n]

(***************************************************************************)
(* What the user uploads and what the model answers.                       *)
(***************************************************************************)
\* names the file uploader admits (type png, jpg, jpeg, webp)
UploadNames == {<<"a", ".", "p", "n", "g">>, <<"b", ".", "J", "P", "G">>}

\* the value of a file uploader: a list of at most MaxImages images
Uploads == UNION {[1..n -> UploadNames] : n \in 0..MaxImages}

\* s wrapped in double quotes
Q(s) == <<"\"">> \o s \o <<"\"">>

\* JSON documents a model may answer with
JsonBodies ==
    { <<"{">> \o Q(K_color_primario) \o <<":">> \o Q(<<"#", "a", "b", "c">>) \o <<",">>
        \o Q(K_color_secundario) \o <<":", " ">> \o Q(<<"#", "d", "e", "f">>) \o <<",">>
        \o Q(K_tipografia) \o <<":">> \o Q(<<"P", "o", "p", "p", "i", "n", "s">>) \o <<"}">>,
      <<"{">> \o Q(K_color_primario) \o <<":">> \o Q(NO_IDENTIFICADO) \o <<",">>
        \o Q(K_estilo) \o <<":">> \o <<"n", "u", "l", "l">> \o <<"}">>,
      <<"{">> \o Q(K_notas_adicionales) \o <<":">> \o Q(FENCE \o <<"c", "s", "s">> \o FENCE) \o <<"}">>,
      <<"{">> \o Q(K_estilo) \o <<":">> \o Q(JSON_LABEL) \o <<"}">>,
      <<"{", "}">>,
      <<"[", "]">>,
      <<"[">> \o Q(<<"#", "a", "b", "c">>) \o <<"]">>,
      Q(JSON_LABEL),
      Q(NO_IDENTIFICADO),
      <<"n", "u", "l", "l">>,
      <<"t", "r", "u", "e">> }

\* answers that are no JSON document
TextBodies ==
    { NO_IDENTIFICADO,
      JSON_LABEL,
      <<"{">> \o Q(K_color_primario) \o <<":">>,
      <<"{">> \o Q(K_estilo) \o <<":">> \o Q(<<"a", "\n", "b">>) \o <<"}">> }

\* body as it is, ws around it
Bare(body, ws) == ws \o body \o ws

\* body in a fenced block with a label, gap between the fences and the body
Fenced(body, label, gap, ws) == ws \o FENCE \o label \o gap \o body \o gap \o FENCE \o ws

\* every way the model wraps a body
Wrappings(body) ==
    {Bare(body, ws) : ws \in {<<>>, <<" ", "\n">>}}
    \cup {Fenced(body, label, gap, ws) :
            label \in {<<>>, JSON_LABEL}, gap \in {<<>>, <<"\n">>}, ws \in {<<>>, <<"\n">>}}
    \cup {FENCE \o JSON_LABEL \o <<"\n">> \o body}

\* the characters of the exhaustively enumerated answers
BrandChars == {BACKTICK, "j", "{", "}", "[", "]", "\"", ":", " ", "a"}

\* the answers to the brand request when extract_brand_info is called alone
BrandContents ==
    ShortTexts(BrandChars, MaxLen)
    \cup UNION {Wrappings(body) : body \in JsonBodies \cup TextBodies}

\* the answers to the brand request in a pipeline run: a mapping, a mapping
\* with a fence in a string, a list and null, each bare and fenced, and a
\* plain text
PipelineBrandContents ==
    UNION {{Bare(body, <<>>), Fenced(body, JSON_LABEL, <<"\n">>, <<>>)} :
             body \in { <<"{">> \o Q(K_color_primario) \o <<":">> \o Q(<<"#", "a", "b", "c">>) \o <<"}">>,
                        <<"{">> \o Q(K_estilo) \o <<":">> \o Q(FENCE) \o <<"}">>,
                        <<"[", "]">>,
                        <<"n", "u", "l", "l">> }}
    \cup {NO_IDENTIFICADO}

\* the answers to the transcription request
CopyContents == {<<"H", "i">>, <<" ", "H", "i", "\n", "{", "a", "}", "\n">>, <<>>}

\* the answers to the structuring request
SectionContents ==
    { <<"#", " ", "H", "E", "R", "O", "\n", "H", "i">>,
      <<"\n", "{">> \o K_color_primario \o <<"}", " ">>,
      <<>> }

\* the media type of each image of a request, in order
MediaTypes(files) == [i \in 1..Len(files) |-> get_image_media_type(files[i])]

(***************************************************************************)
(* One execution of the script.  Streamlit executes the script from its    *)
(* first line in a fresh namespace on every interaction, so an execution   *)
(* begins with line 30 and the script variables unbound.                   *)
(***************************************************************************)
Running == pc \in {"inputs", "step1", "step2", "step3", "step4", "show"}

\* lines 11-337: the globals, the uploaders and the button
Rerun ==
    /\ ~Running
    /\ run < MaxRuns
    /\ \E sec \in KeySources, env \in KeySources, b \in BOOLEAN,
          bf \in Uploads, cf \in Uploads :
        /\ secrets' = sec
        /\ environ' = env
        /\ button' = b
        /\ brandboard_files' = bf
        /\ copy_files' = cf
        /\ ui' = (IF bf # <<>> THEN <<"success: brandboard uploaded">> ELSE <<>>)
                 \o (IF cf # <<>> THEN <<"success: copy uploaded">> ELSE <<>>)
        /\ pc' = IF b THEN "inputs" ELSE "idle"
    /\ run' = run + 1
    /\ _client' = None
    /\ steps' = <<>>
    /\ requests' = <<>>
    /\ content' = <<>>
    /\ brand_info' = Unset
    /\ raw_copy' = Unset
    /\ structured_sections' = Unset
    /\ final_prompt' = Unset
    /\ UNCHANGED <<nConstructed, filename, media_type>>

\* the input check without its elif: only the brandboard is required
CheckInputs_BrandOnly ==
    /\ pc = "inputs"
    /\ IF brandboard_files = <<>>
       THEN ui' = Append(ui, "error: brandboard missing") /\ pc' = "error"
       ELSE ui' = ui /\ pc' = "step1"
    /\ UNCHANGED <<secrets, environ, _client, nConstructed, run, button,
                   brandboard_files, copy_files, steps, requests, content,
                   brand_info, raw_copy, structured_sections, final_prompt,
                   filename, media_type>>

\* lines 339-343: both groups of images are required
CheckInputs ==
    /\ pc = "inputs"
    /\ IF brandboard_files = <<>>
       THEN ui' = Append(ui, "error: brandboard missing") /\ pc' = "error"
       ELSE IF copy_files = <<>>
       THEN ui' = Append(ui, "error: copy missing") /\ pc' = "error"
       ELSE ui' = ui /\ pc' = "step1"
    /\ UNCHANGED <<secrets, environ, _client, nConstructed, run, button,
                   brandboard_files, copy_files, steps, requests, content,
                   brand_info, raw_copy, structured_sections, final_prompt,
                   filename, media_type>>

\* lines 346-357 with extract_brand_info (96-161).  st.stop() raises a
\* BaseException, which the except Exception of the step lets through.
ExtractBrandStep ==
    /\ pc = "step1"
    /\ steps' = Append(steps, "brand")
    /\ LET gc == get_client(_client, secrets, environ, nConstructed)
           request == [step |-> "brand", max_tokens |-> 1000,
                       images |-> MediaTypes(brandboard_files)]
       IN  /\ _client' = gc.client
           /\ nConstructed' = gc.constructed
           /\ IF gc.stopped
              THEN /\ ui' = ui \o <<"info: brand", "error: no api key">>
                   /\ pc' = "error"
                   /\ UNCHANGED <<requests, content, brand_info>>
              ELSE /\ requests' = Append(requests, request)
                   /\ \/ \E c \in PipelineBrandContents :
                            /\ content' = c
                            /\ brand_info' = extract_brand_info(c)
                            /\ ui' = ui \o <<"info: brand", "json">>
                            /\ pc' = "step2"
                      \/ /\ ui' = ui \o <<"info: brand", "error: brand">>
                         /\ pc' = "error"
                         /\ UNCHANGED <<content, brand_info>>
    /\ UNCHANGED <<secrets, environ, run, button, brandboard_files, copy_files,
                   raw_copy, structured_sections, final_prompt, filename, media_type>>

\* step 2 with an except branch that lacks st.stop(): after the error is
\* shown the execution goes on to step 3
ExtractCopyStep_NoStop ==
    /\ pc = "step2"
    /\ steps' = Append(steps, "copy")
    /\ LET gc == get_client(_client, secrets, environ, nConstructed)
           request == [step |-> "copy", max_tokens |-> 4000,
                       images |-> MediaTypes(copy_files)]
       IN  /\ _client' = gc.client
           /\ nConstructed' = gc.constructed
           /\ requests' = Append(requests, request)
           /\ \/ \E c \in CopyContents :
                    /\ content' = c
                    /\ raw_copy' = StrVal(Strip(c))
                    /\ ui' = ui \o <<"info: copy", "text">>
              \/ /\ ui' = ui \o <<"info: copy", "error: copy">>
                 /\ content' = <<>>
                 /\ raw_copy' = StrVal(<<>>)
           /\ pc' = "step3"
    /\ UNCHANGED <<secrets, environ, run, button, brandboard_files, copy_files,
                   brand_info, structured_sections, final_prompt, filename, media_type>>

\* lines 359-369 with extract_copy (164-203)
ExtractCopyStep ==
    /\ pc = "step2"
    /\ steps' = Append(steps, "copy")
    /\ LET gc == get_client(_client, secrets, environ, nConstructed)
           request == [step |-> "copy", max_tokens |-> 4000,
                       images |-> MediaTypes(copy_files)]
       IN  /\ _client' = gc.client
           /\ nConstructed' = gc.constructed
           /\ IF gc.stopped
              THEN /\ ui' = ui \o <<"info: copy", "error: no api key">>
                   /\ pc' = "error"
                   /\ UNCHANGED <<requests, content, raw_copy>>
              ELSE /\ requests' = Append(requests, request)
                   /\ \/ \E c \in CopyContents :
                            /\ content' = c
                            /\ raw_copy' = StrVal(Strip(c))
                            /\ ui' = ui \o <<"info: copy", "text">>
                            /\ pc' = "step3"
                      \/ /\ ui' = ui \o <<"info: copy", "error: copy">>
                         /\ pc' = "error"
                         /\ UNCHANGED <<content, raw_copy>>
    /\ UNCHANGED <<secrets, environ, run, button, brandboard_files, copy_files,
                   brand_info, structured_sections, final_prompt, filename, media_type>>

\* lines 371-377 with structure_copy_into_sections (206-279)
StructureStep ==
    /\ pc = "step3"
    /\ steps' = Append(steps, "sections")
    /\ LET gc == get_client(_client, secrets, environ, nConstructed)
           request == [step |-> "sections", max_tokens |-> 4000, images |-> <<>>]
       IN  /\ _client' = gc.client
           /\ nConstructed' = gc.constructed
           /\ IF gc.stopped
              THEN /\ ui' = ui \o <<"info: sections", "error: no api key">>
                   /\ pc' = "error"
                   /\ UNCHANGED <<requests, content, structured_sections>>
              ELSE /\ requests' = Append(requests, request)
                   /\ \/ \E c \in SectionContents :
                            /\ content' = c
                            /\ structured_sections' = StrVal(Strip(c))
                            /\ ui' = ui \o <<"info: sections">>
                            /\ pc' = "step4"
                      \/ /\ ui' = ui \o <<"info: sections", "error: sections">>
                         /\ pc' = "error"
                         /\ UNCHANGED <<content, structured_sections>>
    /\ UNCHANGED <<secrets, environ, run, button, brandboard_files, copy_files,
                   brand_info, raw_copy, final_prompt, filename, media_type>>

\* lines 379-381: outside any try, so an exception of generate_lovable_prompt
\* ends the execution with the exception shown
AssembleStep ==
    /\ pc = "step4"
    /\ steps' = Append(steps, "assemble")
    /\ LET r == generate_lovable_prompt(brand_info, structured_sections.v)
       IN  IF r.raised
           THEN /\ ui' = ui \o <<"info: prompt", "exception">>
                /\ pc' = "error"
                /\ UNCHANGED final_prompt
           ELSE /\ ui' = ui \o <<"info: prompt">>
                /\ pc' = "show"
                /\ final_prompt' = StrVal(r.val)
    /\ UNCHANGED <<secrets, environ, _client, nConstructed, run, button,
                   brandboard_files, copy_files, requests, content, brand_info,
                   raw_copy, structured_sections, filename, media_type>>

\* lines 383-409: the result, the text area and the download button
ShowResult ==
    /\ pc = "show"
    /\ ui' = ui \o <<"success: prompt", "text_area", "download_button">>
    /\ pc' = "done"
    /\ UNCHANGED <<secrets, environ, _client, nConstructed, run, button,
                   brandboard_files, copy_files, steps, requests, content,
                   brand_info, raw_copy, structured_sections, final_prompt,
                   filename, media_type>>

\* nothing executed yet: the part of the state a function called alone leaves
SessionIdle ==
    /\ _client = None
    /\ nConstructed = 0
    /\ run = 0
    /\ button = FALSE
    /\ brandboard_files = <<>>
    /\ copy_files = <<>>
    /\ steps = <<>>
    /\ requests = <<>>
    /\ ui = <<>>
    /\ raw_copy = Unset
    /\ final_prompt = Unset
    /\ media_type = ""

\* the session before the first execution of the script
Init ==
    /\ SessionIdle
    /\ secrets = ABSENT
    /\ environ = ABSENT
    /\ pc = "idle"
    /\ content = <<>>
    /\ brand_info = Unset
    /\ structured_sections = Unset
    /\ filename = <<>>

Next ==
    \/ Rerun
    \/ CheckInputs
    \/ ExtractBrandStep
    \/ ExtractCopyStep
    \/ StructureStep
    \/ AssembleStep
    \/ ShowResult

Spec == Init /\ [][Next]_vars

(***************************************************************************)
(* extract_brand_info called alone: get_client(), the request, and the     *)
(* parsing of the answer.  The key sources are those of the session, the   *)
(* answer of the model is chosen when the request is sent.                 *)
(***************************************************************************)
InitBrand ==
    /\ SessionIdle
    /\ secrets \in KeySources
    /\ environ \in KeySources
    /\ pc = "call"
    /\ content = <<>>
    /\ brand_info = Unset
    /\ structured_sections = Unset
    /\ filename = <<>>

\* lines 96-161: st.stop() of get_client leaves without a value ("stopped"),
\* an exception of the request propagates to the caller ("raised")
CallExtractBrandInfo ==
    /\ pc = "call"
    /\ LET gc == get_client(_client, secrets, environ, nConstructed)
           request == [step |-> "brand", max_tokens |-> 1000,
                       images |-> MediaTypes(brandboard_files)]
       IN  /\ _client' = gc.client
           /\ nConstructed' = gc.constructed
           /\ IF gc.stopped
              THEN /\ ui' = Append(ui, "error: no api key")
                   /\ pc' = "stopped"
                   /\ UNCHANGED <<requests, content, brand_info>>
              ELSE /\ requests' = Append(requests, request)
                   /\ ui' = ui
                   /\ \/ \E c \in BrandContents :
                            /\ content' = c
                            /\ brand_info' = extract_brand_info(c)
                            /\ pc' = "returned"
                      \/ /\ pc' = "raised"
                         /\ UNCHANGED <<content, brand_info>>
    /\ UNCHANGED <<secrets, environ, run, button, brandboard_files, copy_files,
                   steps, raw_copy, structured_sections, final_prompt,
                   filename, media_type>>

NextBrand == CallExtractBrandInfo

SpecBrand == InitBrand /\ [][NextBrand]_vars

(***************************************************************************)
(* generate_lovable_prompt called alone on a mapping and a sections text.  *)
(***************************************************************************)
\* the keys a brand mapping may hold, in the order of the prompt
BrandKeys ==
    <<K_color_primario, K_color_secundario, K_color_texto, K_color_fondo,
      K_tipografia, K_estilo>>

\* the value of the i-th key under a scheme: a string of its own, the
\* sentinel, a value that is no string, a string with braces
BrandValue(scheme, i) ==
    CASE scheme = "own" -> StrVal(<<"#", "v">> \o BrandKeys[i])
      [] scheme = "sentinel" -> StrVal(NO_IDENTIFICADO)
      [] scheme = "other" ->
            IF i % 3 = 0 THEN NullVal
            ELSE IF i % 3 = 1 THEN ListVal(<<StrVal(<<"a", "\n">>), BoolVal(TRUE)>>)
            ELSE DictVal(<<[k |-> <<"k">>, v |-> StrVal(<<>>)]>>)
      [] scheme = "braces" -> StrVal(<<"{">> \o BrandKeys[7 - i] \o <<"}">>)

\* the mapping that holds the keys of present, in order, and notes
BrandMapping(present, scheme) ==
    LET all == [i \in 1..Len(BrandKeys) |->
                   [k |-> BrandKeys[i], v |-> BrandValue(scheme, i), n |-> i]]
        kept == SelectSeq(all, LAMBDA p : p.n \in present)
    IN  DictVal([i \in 1..Len(kept) |-> [k |-> kept[i].k, v |-> kept[i].v]]
                \o <<[k |-> K_notas_adicionales, v |-> StrVal(<<"o", "k">>)]>>)

BrandMappings ==
    {BrandMapping(present, scheme) :
        present \in SUBSET (1..Len(BrandKeys)),
        scheme \in {"own", "sentinel", "other", "braces"}}

\* the characters of the exhaustively enumerated sections texts
SectionChars == {"{", "}", "a", " ", "\n"}

SectionTexts ==
    ShortTexts(SectionChars, MaxLen)
    \cup { <<"{">> \o K_color_primario \o <<"}">>,
           <<"{", "s", "e", "c", "c", "i", "o", "n", "e", "s", "}">>,
           <<"#", " ", "H", "E", "R", "O", "\n", "{", "{", "a", "}", "}", " ">> }

InitPrompt ==
    /\ SessionIdle
    /\ secrets = ABSENT
    /\ environ = ABSENT
    /\ pc = "call"
    /\ content = <<>>
    /\ brand_info \in BrandMappings
    /\ structured_sections \in {StrVal(t) : t \in SectionTexts}
    /\ filename = <<>>

CallGenerateLovablePrompt ==
    /\ pc = "call"
    /\ LET r == generate_lovable_prompt(brand_info, structured_sections.v)
       IN  IF r.raised
           THEN pc' = "raised" /\ UNCHANGED final_prompt
           ELSE pc' = "returned" /\ final_prompt' = StrVal(r.val)
    /\ UNCHANGED <<secrets, environ, _client, nConstructed, run, button,
                   brandboard_files, copy_files, steps, requests, ui, content,
                   brand_info, raw_copy, structured_sections, filename, media_type>>

NextPrompt == CallGenerateLovablePrompt

SpecPrompt == InitPrompt /\ [][NextPrompt]_vars

(***************************************************************************)
(* get_image_media_type called alone on a filename.                        *)
(***************************************************************************)
NameChars == {".", "g", "i", "f", "G", "a"}

Stems == {<<>>, <<"a">>, <<"a", ".", "b">>, <<"a", ".">>}

Extensions ==
    { <<"p", "n", "g">>, <<"P", "N", "G">>, <<"P", "n", "g">>,
      <<"j", "p", "g">>, <<"J", "P", "G">>, <<"j", "p", "e", "g">>, <<"J", "p", "E", "g">>,
      <<"g", "i", "f">>, <<"G", "I", "F">>, <<"w", "e", "b", "p">>, <<"W", "E", "B", "P">>,
      <<"b", "m", "p">>, <<"t", "x", "t">>, <<"p", "n", "g", "x">>, <<>> }

Filenames ==
    ShortTexts(NameChars, MaxLen)
    \cup {stem \o dot \o ext : stem \in Stems, dot \in {<<>>, <<".">>}, ext \in Extensions}

InitMedia ==
    /\ SessionIdle
    /\ secrets = ABSENT
    /\ environ = ABSENT
    /\ pc = "call"
    /\ content = <<>>
    /\ brand_info = Unset
    /\ structured_sections = Unset
    /\ filename \in Filenames

CallGetImageMediaType ==
    /\ pc = "call"
    /\ media_type' = get_image_media_type(filename)
    /\ pc' = "returned"
    /\ UNCHANGED <<secrets, environ, _client, nConstructed, run, button,
                   brandboard_files, copy_files, steps, requests, ui, content,
                   brand_info, raw_copy, structured_sections, final_prompt, filename>>

NextMedia == CallGetImageMediaType

SpecMedia == InitMedia /\ [][NextMedia]_vars

(***************************************************************************)
(* The claims.                                                             *)
(***************************************************************************)
\* whether the element e was rendered in this execution
Rendered(e) == \E i \in 1..Len(ui) : ui[i] = e

\* a is a prefix of b
IsPrefix(a, b) == Len(a) <= Len(b) /\ SubSeq(b, 1, Len(a)) = a

\* the steps of the pipeline and of its model calls, in their order
PipelineOrder == <<"brand", "copy", "sections", "assemble">>

CallOrder == <<"brand", "copy", "sections">>

\* the step of each request sent in this execution
RequestSteps == [i \in 1..Len(requests) |-> requests[i].step]

\* the error a failed step renders, and the number of that step
StepErrors == {"error: no api key", "error: brand", "error: copy", "error: sections", "exception"}

StepFailed == \E e \in StepErrors : Rendered(e)

\* both groups of images were uploaded
InputsGiven == brandboard_files # <<>> /\ copy_files # <<>>

\* neither the secrets store nor the environment holds a key
NoApiKey == secrets \in {ABSENT, EMPTY} /\ environ \in {ABSENT, EMPTY}

\* C1: within one execution the steps brand, copy, sections, assemble run in
\* that order, each at most once, a step only after every earlier step
\* succeeded; once a step has failed the execution is in the error state,
\* the failed step is the last one begun, no request was sent after it and no
\* final prompt is assembled, shown or offered for download.
C1_ForwardOnlyPipeline ==
    /\ IsPrefix(steps, PipelineOrder)
    /\ IsPrefix(RequestSteps, CallOrder)
    /\ Len(requests) <= Len(steps)
    /\ Len(steps) >= 2 => brand_info # Unset /\ Len(requests) >= 1
    /\ Len(steps) >= 3 => raw_copy # Unset /\ Len(requests) >= 2
    /\ Len(steps) >= 4 => structured_sections # Unset /\ Len(requests) = 3
    /\ (final_prompt # Unset \/ Rendered("text_area") \/ Rendered("download_button"))
          => Len(steps) = 4 /\ ~StepFailed /\ pc \in {"show", "done"}
    /\ StepFailed =>
          /\ pc = "error"
          /\ ui[Len(ui)] \in StepErrors
          /\ final_prompt = Unset
          /\ ~Rendered("text_area") /\ ~Rendered("download_button")
          /\ Rendered("error: no api key") \/ Rendered("error: brand")
                => steps = <<"brand">> /\ brand_info = Unset
          /\ Rendered("error: copy") => Len(steps) = 2 /\ raw_copy = Unset
          /\ Rendered("error: sections") => Len(steps) = 3 /\ structured_sections = Unset
          /\ Rendered("exception") => Len(steps) = 4

\* C1 witness: the second step failed after the first had succeeded
C1_Witness ==
    /\ pc = "error"
    /\ Rendered("error: copy")
    /\ brand_info # Unset
    /\ Len(requests) = 2

\* C2: a triggered execution with no brandboard image, or with no copy image,
\* renders the missing-input error and nothing else of the pipeline: no step
\* begins, no request is sent and no client is constructed.
C2_MissingInputNoNetwork ==
    (button /\ ~InputsGiven /\ pc # "inputs") =>
        /\ pc = "error"
        /\ ui[Len(ui)] = (IF brandboard_files = <<>> THEN "error: brandboard missing"
                          ELSE "error: copy missing")
        /\ ~StepFailed
        /\ steps = <<>>
        /\ requests = <<>>
        /\ _client = None

\* C2 witness: a key is configured and the brandboard is there, the copy is not
C2_Witness ==
    /\ pc = "error"
    /\ button
    /\ brandboard_files # <<>>
    /\ copy_files = <<>>
    /\ environ \notin {ABSENT, EMPTY}
    /\ Rendered("error: copy missing")

\* C3: with no key in the secrets store and none in the environment, a
\* triggered execution with both groups of images halts in its first step
\* with the configuration error: no client is constructed, no request is sent
\* and no later step begins.
C3_NoKeyHaltsBeforeNetwork ==
    (button /\ InputsGiven /\ NoApiKey /\ pc \notin {"inputs", "step1"}) =>
        /\ pc = "error"
        /\ ui[Len(ui)] = "error: no api key"
        /\ _client = None
        /\ requests = <<>>
        /\ steps = <<"brand">>
        /\ brand_info = Unset /\ raw_copy = Unset
        /\ structured_sections = Unset /\ final_prompt = Unset

\* C3 witness: the execution halted on the missing key, in a session that
\* had constructed a client in an earlier execution
C3_Witness ==
    /\ pc = "error"
    /\ button /\ InputsGiven /\ NoApiKey
    /\ Rendered("error: no api key")
    /\ nConstructed >= 1

\* the keys of the mapping the brand prompt asks for, but the notes
RecognizedKeys ==
    {K_color_primario, K_color_secundario, K_color_texto, K_color_fondo,
     K_tipografia, K_estilo}

HasKey(d, key) == \E i \in 1..Len(d.v) : d.v[i].k = key

\* the answer is no JSON document, bare or fenced
NotJson(text) == ~json_loads(text).ok /\ ~StartsWith(Strip(text), FENCE)

\* C4: for an answer that is not valid JSON, extract_brand_info returns a
\* mapping in which every recognized key (primary, secondary, text and
\* background color, font, style) is the sentinel and the notes are the raw
\* answer verbatim.
C4_FallbackFullyPopulated ==
    (pc = "returned" /\ NotJson(content)) =>
        /\ brand_info.t = "dict"
        /\ \A key \in RecognizedKeys :
              /\ HasKey(brand_info, key)
              /\ DictGet(brand_info, key, Unset) = StrVal(NO_IDENTIFICADO)
        /\ DictGet(brand_info, K_notas_adicionales, Unset) = StrVal(content)

\* the answers that hold the JSON document body bare or in a fenced block
\* labelled json, with optional whitespace around
JsonAnswers(body) ==
    {Bare(body, ws) : ws \in {<<>>, <<" ", "\n">>}}
    \cup {Fenced(body, JSON_LABEL, gap, ws) :
            gap \in {<<>>, <<"\n">>}, ws \in {<<>>, <<"\n">>}}

\* C5: for an answer that is valid JSON, bare or in a fenced block labelled
\* json, extract_brand_info returns the decoded value of that JSON, also when
\* a string of the document holds a fence marker or begins with json.
C5_ReturnsDecodedJson ==
    pc = "returned" =>
        \A body \in JsonBodies :
            content \in JsonAnswers(body) => brand_info = json_loads(body).val

\* the position of the n-th piece c of the template
NthPiece(c, n, from) ==
    CHOOSE i \in from..Len(PLANTILLA_LOVABLE) :
        /\ PLANTILLA_LOVABLE[i] = c
        /\ Cardinality({j \in from..i : PLANTILLA_LOVABLE[j] = c}) = n

\* the n-th run of literal text of the template (there are nine, around the
\* eight fields)
Literal(n) ==
    SubSeq(PLANTILLA_LOVABLE,
           IF n = 1 THEN 1 ELSE NthPiece("}", n - 1, 1) + 1,
           IF n = 9 THEN Len(PLANTILLA_LOVABLE) ELSE NthPiece("{", n, 1) - 1)

\* the documented default of each attribute
DefaultOf(key) ==
    CASE key = K_color_primario -> D_000000
      [] key = K_color_secundario -> D_666666
      [] key = K_color_texto -> D_gris_oscuro
      [] key = K_color_fondo -> D_blanco
      [] key = K_tipografia -> D_Inter
      [] key = K_estilo -> D_moderno

\* the text of an attribute: the value of the mapping when the key is there,
\* the documented default otherwise
Attribute(key) ==
    IF HasKey(brand_info, key) THEN PyStr(DictGet(brand_info, key, Unset))
    ELSE DefaultOf(key)

TemplateFields ==
    {"color_primario", "color_secundario", "color_texto", "color_fondo",
     "tipografia", "estilo", "secciones"}

\* C6: the prompt is the literal text of the template with each of the six
\* attributes filled with the value of the mapping when the key is present
\* and with its fixed default otherwise (never the sentinel), the button
\* line filled with the secondary color again, the sections in their place,
\* and no field of the template left in the output.
C6_AttributesOrDefaults ==
    pc # "call" =>
        /\ pc = "returned"
        /\ final_prompt.v =
              Literal(1) \o Attribute(K_color_primario)
              \o Literal(2) \o Attribute(K_color_secundario)
              \o Literal(3) \o Attribute(K_color_texto)
              \o Literal(4) \o Attribute(K_color_fondo)
              \o Literal(5) \o Attribute(K_tipografia)
              \o Literal(6) \o Attribute(K_estilo)
              \o Literal(7) \o Attribute(K_color_secundario)
              \o Literal(8) \o structured_sections.v
              \o Literal(9)
        /\ \A i \in 1..Len(final_prompt.v) : final_prompt.v[i] \notin TemplateFields
        /\ \A key \in RecognizedKeys :
              ~HasKey(brand_info, key) => Attribute(key) # NO_IDENTIFICADO

\* C6 witness: the primary color is in the mapping as the sentinel, the text
\* color and the style are missing
C6_Witness ==
    /\ pc = "returned"
    /\ DictGet(brand_info, K_color_primario, Unset) = StrVal(NO_IDENTIFICADO)
    /\ ~HasKey(brand_info, K_color_texto)
    /\ ~HasKey(brand_info, K_estilo)
    /\ structured_sections.v # <<>>

\* C7: prompt assembly raises on nothing extract_brand_info returns: an
\* execution whose three model calls succeeded assembles the prompt.
C7_AssemblyNeverRaises ==
    (structured_sections # Unset /\ pc # "step4") =>
        /\ final_prompt # Unset
        /\ ~Rendered("exception")
        /\ pc \in {"show", "done"}

\* C8: the prompt holds the sections text unaltered, as a contiguous run,
\* whatever braces or field names the text holds.
C8_SectionsVerbatim ==
    pc # "call" =>
        /\ pc = "returned"
        /\ Contains(final_prompt.v, structured_sections.v)
        /\ Contains(final_prompt.v, Literal(8) \o structured_sections.v \o Literal(9))

\* C8 witness: the sections text is a field of the template in braces
C8_Witness ==
    /\ pc = "returned"
    /\ structured_sections.v = <<"{">> \o K_color_primario \o <<"}">>
    /\ HasKey(brand_info, K_color_primario)

\* C9: the client handle is created at most once in the session and, once
\* set, is never reassigned or reset, across any sequence of executions.
C9_ClientCreatedOnce ==
    [][(_client # None => _client' = _client) /\ nConstructed' <= 1]_vars

\* the text after the last dot of a name that holds a dot
RECURSIVE AfterLastDot(_)
AfterLastDot(name) ==
    IF name[Len(name)] = "." THEN <<>>
    ELSE AfterLastDot(SubSeq(name, 1, Len(name) - 1)) \o <<name[Len(name)]>>

\* the media type of an extension, compared without regard to case
TypeOfExtension(ext) ==
    LET e == Lower(ext)
    IN  IF e = <<"p", "n", "g">> THEN "image/png"
        ELSE IF e \in {<<"j", "p", "g">>, <<"j", "p", "e", "g">>} THEN "image/jpeg"
        ELSE IF e = <<"g", "i", "f">> THEN "image/gif"
        ELSE IF e = <<"w", "e", "b", "p">> THEN "image/webp"
        ELSE "image/png"

\* C10: get_image_media_type returns the media type of the final extension
\* of the filename, compared case-insensitively, and image/png for an
\* unrecognized extension and for a filename with no extension.
C10_MediaTypeOfExtension ==
    pc = "returned" =>
        media_type = (IF Contains(filename, <<".">>)
                      THEN TypeOfExtension(AfterLastDot(filename))
                      ELSE "image/png")

=============================================================================
